---- MODULE Spec2Model ----
(***************************************************************************)
(* Model of extractor.py: the case-insensitive path resolver, the          *)
(* recursive copier, the volume selector and the artifact traversal.       *)
(*                                                                         *)
(* Image paths are sequences of component names (the text between the      *)
(* slashes); <<>> is "/".  A volume is a record                            *)
(*   dirs  : path -> listing (sequence of entry names, in listing order)   *)
(*   files : path -> file record                                           *)
(*   dirAsFile : whether fs.open() of a directory path succeeds            *)
(* An entry that is listed but is in neither domain cannot be opened.      *)
(***************************************************************************)
EXTENDS Integers, Sequences, FiniteSets, TLC

VARIABLES pc, fs, arg, res, out, log, image, attempts, gui

vars == <<pc, fs, arg, res, out, log, image, attempts, gui>>

None == "<none>"

(***************************************************************************)
(* Names and str.lower().  Every name the model uses belongs to one class  *)
(* of spellings that lower() maps to the class's lower-case spelling.      *)
(***************************************************************************)
CaseClasses ==
  { <<"windows", {"Windows", "WINDOWS", "windows"}>>,
    <<"system32", {"System32", "SYSTEM32", "system32"}>>,
    <<"config", {"config", "CONFIG"}>>,
    <<"users", {"Users", "USERS", "users"}>>,
    <<"documents and settings", {"Documents and Settings", "documents and settings"}>>,
    <<"prefetch", {"Prefetch", "PREFETCH", "prefetch"}>>,
    <<"system", {"SYSTEM", "system"}>>,
    <<"system.log1", {"SYSTEM.LOG1", "system.log1"}>>,
    <<"system.log2", {"SYSTEM.LOG2", "system.log2"}>>,
    <<"software", {"SOFTWARE", "software"}>>,
    <<"software.log1", {"SOFTWARE.LOG1"}>>,
    <<"software.log2", {"SOFTWARE.LOG2"}>>,
    <<"sam", {"SAM"}>>,
    <<"sam.log1", {"SAM.LOG1"}>>,
    <<"sam.log2", {"SAM.LOG2"}>>,
    <<"security", {"SECURITY"}>>,
    <<"security.log1", {"SECURITY.LOG1"}>>,
    <<"security.log2", {"SECURITY.LOG2"}>>,
    <<"default", {"DEFAULT", "Default", "default"}>>,
    <<"default.log1", {"DEFAULT.LOG1"}>>,
    <<"default.log2", {"DEFAULT.LOG2"}>>,
    <<"$mft", {"$MFT", "$mft"}>>,
    <<"$logfile", {"$LogFile", "$logfile"}>>,
    <<"$extend", {"$Extend", "$extend"}>>,
    <<"$usnjrnl", {"$UsnJrnl", "$usnjrnl"}>>,
    <<"usnjrnl", {"UsnJrnl", "usnjrnl"}>>,
    <<"$j", {"$J", "$j"}>>,
    <<"$j:$j", {"$J:$J"}>>,
    <<"appdata", {"AppData", "appdata"}>>,
    <<"local", {"Local", "local"}>>,
    <<"google", {"Google", "google"}>>,
    <<"chrome", {"Chrome", "chrome"}>>,
    <<"user data", {"User Data", "user data"}>>,
    <<"microsoft", {"Microsoft", "microsoft"}>>,
    <<"edge", {"Edge", "edge"}>>,
    <<"ntuser.dat", {"NTUSER.DAT", "ntuser.dat", "NtUser.dat"}>>,
    <<"ntuser.dat.log1", {"NTUSER.DAT.LOG1", "ntuser.dat.log1"}>>,
    <<"ntuser.dat.log2", {"NTUSER.DAT.LOG2", "ntuser.dat.log2"}>>,
    <<"usrclass.dat", {"UsrClass.dat", "usrclass.dat"}>>,
    <<"usrclass.dat.log1", {"UsrClass.dat.LOG1", "usrclass.dat.log1"}>>,
    <<"usrclass.dat.log2", {"UsrClass.dat.LOG2", "usrclass.dat.log2"}>>,
    <<"alice", {"alice", "Alice"}>>,
    <<"bob", {"bob", "Bob"}>>,
    <<"public", {"Public", "public"}>>,
    <<"all users", {"All Users"}>>,
    <<"default user", {"Default User"}>>,
    <<"desktop.ini", {"desktop.ini"}>>,
    <<"foo.pf", {"FOO.pf", "foo.pf", "FOO.PF"}>>,
    <<"bar.pf", {"BAR.pf", "bar.pf"}>>,
    <<"baz.pf", {"BAZ.pf", "baz.pf"}>>,
    <<"qux.pf", {"QUX.pf", "qux.pf"}>>,
    <<"history", {"History", "history"}>>,
    <<"sub", {"Sub", "sub"}>>,
    <<"data", {"Data", "data"}>>,
    <<"none", {"None"}>>,
    <<".", {"."}>>,
    <<"..", {".."}>>,
    <<"//", {"//"}>>,
    <<"", {""}>> }

Names == UNION { c[2] : c \in CaseClasses }

LowerTable == [n \in Names |-> (CHOOSE c \in CaseClasses : n \in c[2])[1]]

\* str.lower()
Lower(n) == LowerTable[n]

LowerPath(p) == [i \in 1..Len(p) |-> Lower(p[i])]

\* F applied to the value of e: gives the value a name inside F
With(e, F(_)) == CHOOSE r \in { F(x) : x \in {e} } : TRUE

(***************************************************************************)
(* The filesystem adapter (pytsk3 FS_Info) as the code uses it.            *)
(***************************************************************************)
\* fs.open_dir(path) succeeds
CanOpenDir(v, path) == path \in DOMAIN v.dirs

\* fs.open(path) succeeds
CanOpenFile(v, path) ==
  \/ path \in DOMAIN v.files /\ v.files[path].openOK
  \/ path \in DOMAIN v.dirs /\ v.dirAsFile

\* entries the loops keep: "if not entry.info or not entry.info.name: continue"
HasName(n) == n # ""

\* Path(path).parts with "/" and "" filtered out: "." segments and empty
\* segments vanish, but pathlib keeps a leading "//" as the anchor, which
\* the filter does not remove.
PathParts(path) ==
  LET keep(c) == c \notin {"", "."}
  IN  IF Len(path) >= 2 /\ path[1] = "" /\ path[2] # ""
        THEN <<"//">> \o SelectSeq(Tail(path), keep)
        ELSE SelectSeq(path, keep)

\* f"{real_src}/{name}": under "/" this is "//name"
JoinEntry(real, name) ==
  IF real = <<>> THEN <<"", name>> ELSE Append(real, name)

\* FirstMatch comparing the spellings as they are
FirstMatchExact(listing, part) ==
  LET hits == { i \in 1..Len(listing) : HasName(listing[i]) /\ listing[i] = part }
  IN  IF hits = {} THEN 0 ELSE CHOOSE i \in hits : \A j \in hits : i <= j

\* index of the first entry of the listing that matches part, 0 when none
FirstMatch(listing, part) ==
  With({ i \in 1..Len(listing) : HasName(listing[i]) /\ Lower(listing[i]) = Lower(part) },
       LAMBDA hits : IF hits = {} THEN 0 ELSE CHOOSE i \in hits : \A j \in hits : i <= j)

\* ResolveFrom that, on a component without a match, goes on to the next
\* component and reports the last one it tried
RECURSIVE ResolveFromSkipping(_, _, _, _)
ResolveFromSkipping(v, cur, parts, lookups) ==
  IF parts = <<>>
    THEN [ok |-> TRUE, path |-> cur, err |-> None, part |-> None,
          parent |-> <<>>, lookups |-> lookups]
    ELSE IF ~CanOpenDir(v, cur)
      THEN [ok |-> FALSE, path |-> <<>>, err |-> "FileNotFoundError",
            part |-> None, parent |-> cur, lookups |-> Append(lookups, cur)]
      ELSE LET m == FirstMatch(v.dirs[cur], Head(parts))
           IN  IF m = 0
                 THEN IF Len(parts) > 1
                        THEN LET r == ResolveFromSkipping(v, cur, Tail(parts),
                                                          Append(lookups, cur))
                             IN  IF r.ok
                                   THEN [r EXCEPT !.ok = FALSE, !.path = <<>>,
                                           !.err = "FileNotFoundError",
                                           !.part = parts[Len(parts)],
                                           !.parent = cur]
                                   ELSE r
                        ELSE [ok |-> FALSE, path |-> <<>>, err |-> "FileNotFoundError",
                              part |-> Head(parts), parent |-> cur,
                              lookups |-> Append(lookups, cur)]
                 ELSE ResolveFromSkipping(v, Append(cur, v.dirs[cur][m]), Tail(parts),
                                          Append(lookups, cur))

\* The walk of lines 64-79.  The result records the exception raised (err),
\* the component and the directory its message names, and every directory
\* that was opened (lookups).
RECURSIVE ResolveFrom(_, _, _, _)
ResolveFrom(v, cur, parts, lookups) ==
  IF parts = <<>>
    THEN [ok |-> TRUE, path |-> cur, err |-> None, part |-> None,
          parent |-> <<>>, lookups |-> lookups]
    ELSE IF ~CanOpenDir(v, cur)
      THEN \* "Cannot open directory {cur}: {e}"
           [ok |-> FALSE, path |-> <<>>, err |-> "FileNotFoundError",
            part |-> None, parent |-> cur, lookups |-> Append(lookups, cur)]
      ELSE With(FirstMatch(v.dirs[cur], Head(parts)),
             LAMBDA m :
               IF m = 0
                 THEN \* "Component '{part}' not found under {cur}"
                      [ok |-> FALSE, path |-> <<>>, err |-> "FileNotFoundError",
                       part |-> Head(parts), parent |-> cur,
                       lookups |-> Append(lookups, cur)]
                 ELSE ResolveFrom(v, Append(cur, v.dirs[cur][m]), Tail(parts),
                                  Append(lookups, cur)))

resolve_case_insensitive_path(v, path) ==
  IF path = <<>>
    THEN [ok |-> TRUE, path |-> <<>>, err |-> None, part |-> None,
          parent |-> <<>>, lookups |-> <<>>]
    ELSE ResolveFrom(v, <<>>, PathParts(path), <<>>)

(***************************************************************************)
(* Local storage.  out.dirs is the set of local directories, out.files     *)
(* maps a local path to its content: the sequence of chunks written, each  *)
(* [src, off, len] = len bytes of image file src from offset off.  Local   *)
(* names are case-sensitive.                                               *)
(***************************************************************************)
Parent(p) == SubSeq(p, 1, Len(p) - 1)

\* Path.mkdir(parents=True, exist_ok=True) raises when the path or one of
\* its parents is a file
CanMkdir(o, p) == \A i \in 1..Len(p) : SubSeq(p, 1, i) \notin DOMAIN o.files

_ensure_dir(o, p) ==
  [o EXCEPT !.dirs = @ \cup { SubSeq(p, 1, i) : i \in 1..Len(p) }]

\* open(dst_path, "wb") raises IsADirectoryError on a directory
CanOpenForWrite(o, p) == p \notin o.dirs

\* WriteFile opening the destination for append
WriteFileAppending(o, p, content) ==
  [o EXCEPT !.files = [q \in DOMAIN o.files \cup {p} |->
                         IF q # p THEN o.files[q]
                         ELSE IF p \in DOMAIN o.files THEN o.files[p] \o content
                         ELSE content]]

\* open(dst_path, "wb") then the writes: the file holds what this call wrote
WriteFile(o, p, content) ==
  [o EXCEPT !.files = [q \in DOMAIN o.files \cup {p} |->
                         IF q = p THEN content ELSE o.files[q]]]

\* bytes of the content
ContentLen(content) ==
  LET RECURSIVE Sum(_)
      Sum(i) == IF i = 0 THEN 0 ELSE content[i].len + Sum(i - 1)
  IN  Sum(Len(content))

\* the content is the first n bytes of image file src, in order
IsPrefixOf(content, src, n) ==
  /\ ContentLen(content) = n
  /\ \A i \in 1..Len(content) :
       /\ content[i].src = src
       /\ content[i].len > 0
       /\ content[i].off = ContentLen(SubSeq(content, 1, i - 1))

(***************************************************************************)
(* Reading a source file.  A file record holds the size its metadata       *)
(* declares (0: none), the number of bytes the source yields, the most     *)
(* bytes one read returns and the first offset at which a read raises      *)
(* (-1: never).                                                            *)
(***************************************************************************)
CHUNK == 4 * 1024 * 1024
EOF_CHUNK == 8192

Min(a, b) == IF a < b THEN a ELSE b
Max(a, b) == IF a > b THEN a ELSE b

\* a directory opened as a file yields no size and no bytes
DirAsFileRecord == [openOK |-> TRUE, size |-> 0, avail |-> 0, burst |-> 0, failAt |-> -1]

FileRecord(v, path) ==
  IF path \in DOMAIN v.files THEN v.files[path] ELSE DirAsFileRecord

\* f.read_random(offset, n): the number of bytes returned, -1 when it raises
read_random(f, offset, n) ==
  LET got == Min(Min(n, f.burst), Max(f.avail - offset, 0))
  IN  IF f.failAt >= 0 /\ offset <= f.failAt /\ f.failAt < offset + got
        THEN -1
        ELSE got

\* lines 129-134: no size, read until an empty read
RECURSIVE ReadUntilEOF(_, _, _, _)
ReadUntilEOF(f, src, offset, content) ==
  LET n == read_random(f, offset, EOF_CHUNK)
  IN  IF n < 0 THEN [content |-> content, raised |-> TRUE]
      ELSE IF n = 0 THEN [content |-> content, raised |-> FALSE]
      ELSE ReadUntilEOF(f, src, offset + n,
                        Append(content, [src |-> src, off |-> offset, len |-> n]))

\* ReadSized advancing the offset by the bytes asked for
RECURSIVE ReadSizedAdvanceRequested(_, _, _, _, _)
ReadSizedAdvanceRequested(f, src, offset, size, content) ==
  IF ~(offset < size) THEN [content |-> content, raised |-> FALSE]
  ELSE LET to_read == Min(CHUNK, size - offset)
           n == read_random(f, offset, to_read)
       IN  IF n < 0 THEN [content |-> content, raised |-> TRUE]
           ELSE IF n = 0 THEN [content |-> content, raised |-> FALSE]
           ELSE ReadSizedAdvanceRequested(f, src, offset + to_read, size,
                          Append(content, [src |-> src, off |-> offset, len |-> n]))

\* lines 136-143: read up to the declared size, stop on an empty read
RECURSIVE ReadSized(_, _, _, _, _)
ReadSized(f, src, offset, size, content) ==
  IF ~(offset < size) THEN [content |-> content, raised |-> FALSE]
  ELSE LET to_read == Min(CHUNK, size - offset)
           n == read_random(f, offset, to_read)
       IN  IF n < 0 THEN [content |-> content, raised |-> TRUE]
           ELSE IF n = 0 THEN [content |-> content, raised |-> FALSE]
           ELSE ReadSized(f, src, offset + n, size,
                          Append(content, [src |-> src, off |-> offset, len |-> n]))

\* lines 120-143
ReadSource(f, src) ==
  IF f.size = 0 THEN ReadUntilEOF(f, src, 0, <<>>)
  ELSE ReadSized(f, src, 0, f.size, <<>>)

(***************************************************************************)
(* copy_file_or_dir.  The result is the value returned ("True", "False")   *)
(* or "raise" with the exception that leaves the function, and the local   *)
(* tree and the log as the call leaves them.                               *)
(***************************************************************************)
Returned(b, o, lg) == [ret |-> IF b THEN "True" ELSE "False", exc |-> None, out |-> o, log |-> lg]
Raised(e, o, lg) == [ret |-> "raise", exc |-> e, out |-> o, log |-> lg]

Logged(lg, tag, src, dst) == Append(lg, [tag |-> tag, src |-> src, dst |-> dst])

\* lines 113-145: "not a directory, treat as a file"
CopyFile(v, real_src, dst_path, o, lg) ==
  IF ~CanOpenFile(v, real_src)
    THEN Returned(FALSE, o, Logged(lg, "ERR", real_src, <<>>))
  ELSE IF ~CanMkdir(o, Parent(dst_path))
    THEN Raised("FileExistsError", o, lg)
  ELSE With(_ensure_dir(o, Parent(dst_path)),
         LAMBDA o1 :
           IF ~CanOpenForWrite(o1, dst_path)
             THEN Raised("IsADirectoryError", o1, lg)
             ELSE With(ReadSource(FileRecord(v, real_src), real_src),
                    LAMBDA rd :
                      With(WriteFile(o1, dst_path, rd.content),
                        LAMBDA o2 :
                          IF rd.raised
                            THEN Raised("IOError", o2, lg)
                            ELSE Returned(TRUE, o2,
                                          Logged(lg, "SAVED", real_src, dst_path)))))

RECURSIVE copy_file_or_dir(_, _, _, _, _)
RECURSIVE CopyEntries(_, _, _, _, _, _, _, _)

\* lines 100-110: the loop over the directory's entries, from entry i on
CopyEntries(v, real_src, dst_path, listing, i, o, lg, saved_any) ==
  IF i > Len(listing) THEN Returned(saved_any, o, lg)
  ELSE LET name == listing[i]
       IN  IF ~HasName(name) \/ name \in {".", ".."}
             THEN CopyEntries(v, real_src, dst_path, listing, i + 1, o, lg, saved_any)
             ELSE With(copy_file_or_dir(v, JoinEntry(real_src, name),
                                        Append(dst_path, name), o, lg),
                    LAMBDA c :
                      IF c.ret = "raise" THEN c
                      ELSE CopyEntries(v, real_src, dst_path, listing, i + 1,
                                       c.out, c.log, saved_any \/ c.ret = "True"))

\* lines 95-111: the directory attempt; any exception inside it, a child's
\* included, is caught by line 111
CopyDir(v, real_src, dst_path, o, lg) ==
  IF ~CanOpenDir(v, real_src) THEN Raised("IOError", o, lg)
  ELSE IF ~CanMkdir(o, dst_path) THEN Raised("FileExistsError", o, lg)
  ELSE CopyEntries(v, real_src, dst_path, v.dirs[real_src], 1,
                   _ensure_dir(o, dst_path), lg, FALSE)

copy_file_or_dir(v, src_path, dst_path, o, lg) ==
  With(resolve_case_insensitive_path(v, src_path),
    LAMBDA r :
      IF ~r.ok THEN Returned(FALSE, o, Logged(lg, "MISSING", src_path, <<>>))
      ELSE With(CopyDir(v, r.path, dst_path, o, lg),
             LAMBDA d :
               IF d.ret # "raise" THEN d
               ELSE CopyFile(v, r.path, dst_path, d.out, d.log)))

(***************************************************************************)
(* open_ewf_image_and_find_fs.  An image is a record                       *)
(*   segments : number of segment files libewf.glob finds                  *)
(*   openOK   : whether the EWF handle opens                               *)
(*   fsAt     : byte offset -> volume, the offsets where FS_Info succeeds  *)
(*   table    : whether Volume_Info finds a partition table                *)
(*   sector   : volume.info.block_size                                     *)
(*   parts    : the table's entries [start, len, desc], in table order     *)
(* The result also records the offsets at which a filesystem open was      *)
(* tried (opened) and whether the partition table was read (enumerated).   *)
(***************************************************************************)
Selected(offset, desc, v, opened, enumerated) ==
  [ok |-> TRUE, exc |-> None, offset |-> offset, desc |-> desc, vol |-> v,
   opened |-> opened, enumerated |-> enumerated]

SelectFailed(opened, enumerated) ==
  [ok |-> FALSE, exc |-> "RuntimeError", offset |-> -1, desc |-> None,
   vol |-> None, opened |-> opened, enumerated |-> enumerated]

\* lines 232-236: the names of the root's entries, none when listing fails
RootNames(v) ==
  IF CanOpenDir(v, <<>>) THEN SelectSeq(v.dirs[<<>>], HasName) ELSE <<>>

\* Preferred that only looks for Windows
PreferredWindowsOnly(names) ==
  \E i \in 1..Len(names) : Lower(names[i]) = "windows"

\* lines 237-240: has_windows or has_users
Preferred(names) ==
  LET has_windows == \E i \in 1..Len(names) : Lower(names[i]) = "windows"
      has_users == \E i \in 1..Len(names) :
                     Lower(names[i]) = "users" \/ Lower(names[i]) = "documents and settings"
  IN  has_windows \/ has_users

\* PartOffset taking the start sector for the byte offset
PartOffsetInSectors(start, sector_size) == start

\* line 226
PartOffset(start, sector_size) == start * sector_size

\* line 239-244: desc or f"start={start}"
PartDesc(part) == IF part.desc = "" THEN "start=" \o ToString(part.start) ELSE part.desc

\* lines 221-251: the loop over the table from entry i on; best_candidate
\* is <<>> for None
RECURSIVE ScanParts(_, _, _, _)
ScanParts(img, i, best_candidate, opened) ==
  IF i > Len(img.parts)
    THEN IF best_candidate # <<>>
           THEN [best_candidate[1] EXCEPT !.opened = opened]
           ELSE SelectFailed(opened, TRUE)
    ELSE LET part == img.parts[i]
             offset_bytes == PartOffset(part.start, img.sector)
         IN  IF part.start <= 0 THEN ScanParts(img, i + 1, best_candidate, opened)
             ELSE IF offset_bytes \notin DOMAIN img.fsAt
               THEN ScanParts(img, i + 1, best_candidate, Append(opened, offset_bytes))
             ELSE LET v == img.fsAt[offset_bytes]
                      here == Selected(offset_bytes, PartDesc(part), v,
                                       Append(opened, offset_bytes), TRUE)
                  IN  IF Preferred(RootNames(v)) THEN here
                      ELSE ScanParts(img, i + 1,
                                     IF best_candidate = <<>> THEN <<here>> ELSE best_candidate,
                                     Append(opened, offset_bytes))

\* the selector going to the partition table before it tries offset 0
FindFsTableFirst(img) ==
  IF img.segments = 0 \/ ~img.openOK THEN SelectFailed(<<>>, FALSE)
  ELSE LET r == IF img.table THEN ScanParts(img, 1, <<>>, <<>>)
                ELSE SelectFailed(<<>>, TRUE)
       IN  IF ~r.ok /\ 0 \in DOMAIN img.fsAt
             THEN Selected(0, "offset 0", img.fsAt[0], Append(r.opened, 0), TRUE)
             ELSE r

open_ewf_image_and_find_fs(img) ==
  IF img.segments = 0 THEN SelectFailed(<<>>, FALSE)
  ELSE IF ~img.openOK THEN SelectFailed(<<>>, FALSE)
  ELSE IF 0 \in DOMAIN img.fsAt
    THEN Selected(0, "offset 0", img.fsAt[0], <<0>>, FALSE)
  ELSE IF ~img.table THEN SelectFailed(<<0>>, TRUE)
  ELSE ScanParts(img, 1, <<>>, <<0>>)

(***************************************************************************)
(* extract_artifacts.  A run state st is [out, log, attempts]: the local   *)
(* tree, the log, and the calls of copy_file_or_dir made so far, each     *)
(* with its source, its destination and what it returned.                  *)
(* Local paths are relative to output_root.                                *)
(***************************************************************************)
\* one call of copy_file_or_dir made by extract_artifacts
Attempt(v, st, src, dst) ==
  With(copy_file_or_dir(v, src, dst, st.out, st.log),
    LAMBDA c :
      [st |-> [out |-> c.out, log |-> c.log,
               attempts |-> Append(st.attempts, [src |-> src, dst |-> dst, ret |-> c.ret])],
       ret |-> c.ret])

Note(st, tag, src) == [st EXCEPT !.log = Logged(@, tag, src, <<>>)]

Target(src, dst) == [src |-> src, dst |-> dst]

\* path + suf
WithSuffix(path, suf) == [path EXCEPT ![Len(path)] = @ \o suf]

\* calls made one after the other inside one try block: the first one that
\* raises ends the block; any records whether a call returned True
RECURSIVE AttemptBlock(_, _, _, _, _)
AttemptBlock(v, st, targets, i, any) ==
  IF i > Len(targets) THEN [st |-> st, raised |-> FALSE, any |-> any]
  ELSE With(Attempt(v, st, targets[i].src, targets[i].dst),
         LAMBDA a :
           IF a.ret = "raise" THEN [st |-> a.st, raised |-> TRUE, any |-> any]
           ELSE AttemptBlock(v, a.st, targets, i + 1, any \/ a.ret = "True"))

\* calls each inside its own try block, a raise logged under tag
RECURSIVE AttemptEach(_, _, _, _, _)
AttemptEach(v, st, targets, i, tag) ==
  IF i > Len(targets) THEN st
  ELSE With(Attempt(v, st, targets[i].src, targets[i].dst),
         LAMBDA a :
           AttemptEach(v, IF a.ret = "raise" THEN Note(a.st, tag, targets[i].src) ELSE a.st,
                       targets, i + 1, tag))

\* candidates tried in order, each in its own try block, until one returns
\* True; a raise is logged under tag ("" logs nothing)
RECURSIVE AttemptUntilSaved(_, _, _, _, _)
AttemptUntilSaved(v, st, targets, i, tag) ==
  IF i > Len(targets) THEN [st |-> st, saved |-> FALSE]
  ELSE With(Attempt(v, st, targets[i].src, targets[i].dst),
         LAMBDA a :
           IF a.ret = "True" THEN [st |-> a.st, saved |-> TRUE]
           ELSE AttemptUntilSaved(v,
                  IF a.ret = "raise" /\ tag # "" THEN Note(a.st, tag, targets[i].src) ELSE a.st,
                  targets, i + 1, tag))

\* _decode_name of an entry the loop did not filter: str(None) for an
\* entry without a name
DecodedName(n) == IF n = "" THEN "None" ELSE n

prefetch_out == <<"prefetch">>
filesystem_out == <<"filesystem">>
registry_system == <<"registry", "System">>
registry_peruser == <<"registry", "PerUser">>
chrome_root == <<"browser", "Chrome">>
edge_root == <<"browser", "Edge">>

\* lines 273-275 and 292-293
OutputDirs ==
  { <<"logs">>, prefetch_out, filesystem_out, <<"registry">>, registry_system,
    registry_peruser, <<"browser">>, chrome_root, edge_root }

\* lines 299-305, in dictionary order
system_targets == <<"SYSTEM", "SOFTWARE", "SAM", "SECURITY", "DEFAULT">>

ConfigPath(name) == <<"Windows", "System32", "config", name>>

\* lines 306-313
RECURSIVE SystemHives(_, _, _)
SystemHives(v, st, i) ==
  IF i > Len(system_targets) THEN st
  ELSE LET name == system_targets[i]
           path == ConfigPath(name)
       IN  With(AttemptBlock(v, st,
                  << Target(path, Append(registry_system, name)),
                     Target(WithSuffix(path, ".LOG1"), Append(registry_system, name \o ".LOG1")),
                     Target(WithSuffix(path, ".LOG2"), Append(registry_system, name \o ".LOG2")) >>,
                  1, FALSE),
             LAMBDA b :
               SystemHives(v, IF b.raised THEN Note(b.st, "REG-SYS", path) ELSE b.st, i + 1))

usn_candidates ==
  << <<"$Extend", "$UsnJrnl", "$J">>, <<"$UsnJrnl", "$J">>, <<"$Extend", "$UsnJrnl", "$J:$J">> >>

\* line 344: nm.lower().startswith("usnjrnl")
LooksLikeJournal(nm) ==
  Len(Lower(nm)) >= 7 /\ SubSeq(Lower(nm), 1, 7) = "usnjrnl"

\* lines 342-348; a raise leaves the search (line 349)
RECURSIVE SearchExtend(_, _, _, _, _)
SearchExtend(v, st, ext, listing, i) ==
  IF i > Len(listing) THEN [st |-> st, saved |-> FALSE]
  ELSE LET nm == DecodedName(listing[i])
       IN  IF ~LooksLikeJournal(nm) THEN SearchExtend(v, st, ext, listing, i + 1)
           ELSE With(Attempt(v, st, ext \o <<nm, "$J">>, Append(filesystem_out, "$J")),
                  LAMBDA a :
                    IF a.ret = "raise" THEN [st |-> a.st, saved |-> FALSE]
                    ELSE IF a.ret = "True" THEN [st |-> a.st, saved |-> TRUE]
                    ELSE SearchExtend(v, a.st, ext, listing, i + 1))

\* lines 328-350: the candidates, then the search inside $Extend
UsnJournal(v, st) ==
  With(AttemptUntilSaved(v, st,
         [k \in 1..Len(usn_candidates) |->
            Target(usn_candidates[k], Append(filesystem_out, "$J"))], 1, "USN"),
    LAMBDA u :
      IF u.saved THEN u
      ELSE With(resolve_case_insensitive_path(v, <<"$Extend">>),
             LAMBDA ext :
               IF ~ext.ok \/ ~CanOpenDir(v, ext.path) THEN u
               ELSE SearchExtend(v, u.st, ext.path, v.dirs[ext.path], 1)))

\* lines 318-352
FilesystemArtifacts(v, st) ==
  With(AttemptEach(v, st,
         << Target(<<"$MFT">>, Append(filesystem_out, "$MFT")),
            Target(<<"$LogFile">>, Append(filesystem_out, "$LogFile")) >>,
         1, "FS"),
    LAMBDA s :
      With(UsnJournal(v, s),
        LAMBDA w : IF w.saved THEN w.st ELSE Note(w.st, "USN", <<"$J">>)))

\* lines 359-364: both spellings are copied, one after the other
RECURSIVE PrefetchFixed(_, _, _, _, _)
PrefetchFixed(v, st, paths, i, saved) ==
  IF i > Len(paths) THEN [st |-> st, saved |-> saved]
  ELSE With(Attempt(v, st, paths[i], prefetch_out),
         LAMBDA a :
           PrefetchFixed(v, IF a.ret = "raise" THEN Note(a.st, "PREFETCH", paths[i]) ELSE a.st,
                         paths, i + 1, saved \/ a.ret = "True"))

\* lines 368-377: the candidates of the search, in order
PrefetchCandidates(v) ==
  With(resolve_case_insensitive_path(v, <<"Windows">>),
    LAMBDA win :
      LET hit(n) == Lower(DecodedName(n)) = "prefetch"
          under == IF win.ok THEN << Append(win.path, "Prefetch") >> ELSE <<>>
      IN  With(SelectSeq(v.dirs[<<>>], hit),
            LAMBDA names : under \o [k \in 1..Len(names) |-> <<DecodedName(names[k])>>]))

\* lines 365-386: the search runs when neither fixed path was saved; when
\* the root cannot be listed no candidate is tried
PrefetchSearch(v, f) ==
  IF f.saved THEN f
  ELSE IF ~CanOpenDir(v, <<>>) THEN f
  ELSE With(PrefetchCandidates(v),
         LAMBDA candidates :
           AttemptUntilSaved(v, f.st,
             [k \in 1..Len(candidates) |-> Target(candidates[k], prefetch_out)], 1, ""))

\* lines 357-391
Prefetch(v, st) ==
  With(PrefetchFixed(v, st, << <<"Windows", "Prefetch">>, <<"windows", "Prefetch">> >>,
                     1, FALSE),
    LAMBDA f :
      With(PrefetchSearch(v, f),
        LAMBDA g : IF g.saved THEN g.st ELSE Note(g.st, "PREFETCH", <<>>)))

\* lines 397-404: <<>> stands for None
UsersPath(v) ==
  With(resolve_case_insensitive_path(v, <<"Users">>),
    LAMBDA u :
      IF u.ok THEN u.path
      ELSE With(resolve_case_insensitive_path(v, <<"Documents and Settings">>),
             LAMBDA d : IF d.ok THEN d.path ELSE <<>>))

\* lines 410-414 and 444-448
SkippedUser(uname) ==
  ~HasName(uname) \/ uname \in {".", "..", "Public", "All Users", "Default", "Default User"}

BrowserTargets(users_path, uname) ==
  LET local == users_path \o <<uname, "AppData", "Local">>
  IN  << Target(local \o <<"Google", "Chrome", "User Data">>, Append(chrome_root, uname)),
         Target(local \o <<"Google", "Chrome">>, Append(chrome_root, uname)),
         Target(local \o <<"Microsoft", "Edge", "User Data">>, Append(edge_root, uname)),
         Target(local \o <<"Microsoft", "Edge">>, Append(edge_root, uname)) >>

\* lines 409-430: the whole loop is inside one try block
RECURSIVE BrowserUsers(_, _, _, _, _)
BrowserUsers(v, st, users_path, listing, i) ==
  IF i > Len(listing) THEN [st |-> st, raised |-> FALSE]
  ELSE IF SkippedUser(listing[i]) THEN BrowserUsers(v, st, users_path, listing, i + 1)
  ELSE With(AttemptBlock(v, st, BrowserTargets(users_path, listing[i]), 1, FALSE),
         LAMBDA b :
           IF b.raised THEN [st |-> b.st, raised |-> TRUE]
           ELSE BrowserUsers(v, b.st, users_path, listing, i + 1))

\* lines 396-434
Browsers(v, st) ==
  With(UsersPath(v),
    LAMBDA users_path :
      IF users_path = <<>> THEN Note(st, "BROWSERS", <<>>)
      ELSE IF ~CanOpenDir(v, users_path) THEN Note(st, "BROWSERS", users_path)
      ELSE With(BrowserUsers(v, st, users_path, v.dirs[users_path], 1),
             LAMBDA b : IF b.raised THEN Note(b.st, "BROWSERS", users_path) ELSE b.st))

nt_names ==
  <<"NTUSER.DAT", "NTUSER.DAT.LOG1", "NTUSER.DAT.LOG2",
    "ntuser.dat", "ntuser.dat.log1", "ntuser.dat.log2">>

usrclass_names ==
  <<"UsrClass.dat", "UsrClass.dat.LOG1", "UsrClass.dat.LOG2",
    "usrclass.dat", "usrclass.dat.log1", "usrclass.dat.log2">>

UsrClassBases(users_path, uname) ==
  << users_path \o <<uname, "AppData", "Local", "Microsoft", "Windows">>,
     users_path \o <<uname, "AppData", "Local", "Windows">> >>

\* lines 466-474: one try block per base directory
RECURSIVE UsrClass(_, _, _, _, _)
UsrClass(v, st, bases, user_out, i) ==
  IF i > Len(bases) THEN st
  ELSE With(AttemptBlock(v, st,
              [k \in 1..Len(usrclass_names) |->
                 Target(Append(bases[i], usrclass_names[k]),
                        Append(user_out, usrclass_names[k]))], 1, FALSE),
         LAMBDA b : UsrClass(v, b.st, bases, user_out, i + 1))

\* lines 443-477
RECURSIVE RegistryUsers(_, _, _, _, _)
RegistryUsers(v, st, users_path, listing, i) ==
  IF i > Len(listing) THEN [st |-> st, raised |-> FALSE]
  ELSE IF SkippedUser(listing[i]) THEN RegistryUsers(v, st, users_path, listing, i + 1)
  ELSE LET uname == listing[i]
           user_out == Append(registry_peruser, uname)
       IN  IF ~CanMkdir(st.out, user_out) THEN [st |-> st, raised |-> TRUE]
           ELSE With(AttemptEach(v, [st EXCEPT !.out = _ensure_dir(@, user_out)],
                       [k \in 1..Len(nt_names) |->
                          Target(users_path \o <<uname, nt_names[k]>>,
                                 Append(user_out, nt_names[k]))], 1, "NTUSER"),
                  LAMBDA s1 :
                    With(UsrClass(v, s1, UsrClassBases(users_path, uname), user_out, 1),
                      LAMBDA s2 : RegistryUsers(v, s2, users_path, listing, i + 1)))

\* PerUserHives that says nothing when there is no users container
PerUserHivesSilent(v, st) ==
  With(UsersPath(v),
    LAMBDA users_path :
      IF users_path = <<>> THEN st
      ELSE IF ~CanOpenDir(v, users_path) THEN Note(st, "REG-USER", users_path)
      ELSE With(RegistryUsers(v, st, users_path, v.dirs[users_path], 1),
             LAMBDA b : IF b.raised THEN Note(b.st, "REG-USER", users_path) ELSE b.st))

\* lines 439-481
PerUserHives(v, st) ==
  With(UsersPath(v),
    LAMBDA users_path :
      IF users_path = <<>> THEN Note(st, "REG-USER", <<>>)
      ELSE IF ~CanOpenDir(v, users_path) THEN Note(st, "REG-USER", users_path)
      ELSE With(RegistryUsers(v, st, users_path, v.dirs[users_path], 1),
             LAMBDA b : IF b.raised THEN Note(b.st, "REG-USER", users_path) ELSE b.st))

(***************************************************************************)
(* main.py.  gui is the state of the window and of its workers:            *)
(*   enabled    : which controls accept input                              *)
(*   image_edit : the text of the image field                              *)
(*   out_edit   : the text of the output folder field                      *)
(*   workers    : the Worker objects handed to the thread pool, in order,  *)
(*                each [state, emitted]: "queued", "running" or "done",    *)
(*                and how many times it emitted finished                   *)
(*   queue      : the finished signals on their way to the main thread,    *)
(*                each [worker, success]                                   *)
(*   status_badge : the text of the status badge                           *)
(***************************************************************************)
\* the window after MainWindow.__init__: Start is disabled (line 157)
MainWindow ==
  [enabled |-> [btn_start |-> FALSE, btn_select |-> TRUE, btn_choose_out |-> TRUE,
                spin_expected |-> TRUE, btn_open_out |-> TRUE],
   image_edit |-> "",
   workers |-> <<>>,
   out_edit |-> "",
   queue |-> <<>>,
   status_badge |-> "Idle"]

(***************************************************************************)
(* Bounds and input families.                                              *)
(***************************************************************************)
\* longest directory listing the generated volumes hold
MaxListing == 2

\* sequences over S of length <= n without repeated elements
Listings(S, n) ==
  UNION { { l \in [1..k -> S] : \A i, j \in 1..k : l[i] = l[j] => i = j } :
          k \in 0..n }

\* a file whose open and reads succeed: declared size, bytes the source
\* yields, most bytes one read returns, first offset at which a read raises
\* (-1: never; a read raises when the bytes it would return include it)
GoodFile(n) == [openOK |-> TRUE, size |-> n, avail |-> n, burst |-> n, failAt |-> -1]

NoFunction == [x \in {} |-> x]

ResolveRootNames == {"Windows", "WINDOWS", "Users"}
ResolveSubNames == {"System32", "system32"}

\* what a root entry is: a directory (with its listing), a file, or an
\* entry that opens neither as directory nor as file
ResolveNodeChoices ==
  { [k |-> "dir", l |-> l] : l \in Listings(ResolveSubNames, MaxListing) }
    \cup { [k |-> "file", l |-> <<>>], [k |-> "orphan", l |-> <<>>] }

\* volume with root listing rl, root entry i being nc[i]; second-level
\* entries are directories holding "config" (leaf = "dirs") or plain files
ResolveVolume(rl, nc, leaf) ==
  LET top == { i \in 1..Len(rl) : nc[i].k = "dir" }
      idx(n) == CHOOSE i \in 1..Len(rl) : rl[i] = n
      d1 == { <<rl[i]>> : i \in top }
      d2 == IF leaf = "dirs"
              THEN UNION { { <<rl[i], nc[i].l[j]>> : j \in 1..Len(nc[i].l) } : i \in top }
              ELSE {}
      f1 == { <<rl[i]>> : i \in { i \in 1..Len(rl) : nc[i].k = "file" } }
      f2 == IF leaf = "dirs" THEN {}
              ELSE UNION { { <<rl[i], nc[i].l[j]>> : j \in 1..Len(nc[i].l) } : i \in top }
  IN  [dirs |-> [p \in {<<>>} \cup d1 \cup d2 |->
                   IF p = <<>> THEN rl
                   ELSE IF Len(p) = 1 THEN nc[idx(p[1])].l
                   ELSE <<"config">>],
       files |-> [p \in f1 \cup f2 \cup { Append(p, "config") : p \in d2 } |-> GoodFile(1)],
       dirAsFile |-> TRUE]

ResolveVolumes ==
  UNION { { ResolveVolume(rl, nc, leaf) :
              nc \in [1..Len(rl) -> ResolveNodeChoices], leaf \in {"dirs", "files"} } :
          rl \in Listings(ResolveRootNames, MaxListing) }

\* logical paths handed to the resolver
ResolvePaths ==
  LET first == {"Windows", "windows", "WINDOWS", "users"}
      second == {"System32", "SYSTEM32"}
      third == {"config", "CONFIG"}
  IN  {<<>>} \cup { <<a>> : a \in first }
        \cup { <<a, b>> : a \in first, b \in second }
        \cup { <<a, b, c>> : a \in first, b \in second, c \in third }

(***************************************************************************)
(* SpecResolve: one call of the resolver, then a second call on the path   *)
(* the first one returned.                                                 *)
(***************************************************************************)
EmptyOut == [dirs |-> {}, files |-> NoFunction]
NoImage == [fs0 |-> None, table |-> FALSE, sector |-> 0, parts |-> <<>>]
NoVolume == [dirs |-> NoFunction, files |-> NoFunction, dirAsFile |-> FALSE]

InitResolve ==
  /\ pc = "resolve"
  /\ fs \in ResolveVolumes
  /\ \E p \in ResolvePaths : arg = [path |-> p, first |-> None]
  /\ res = None
  /\ out = EmptyOut
  /\ log = <<>>
  /\ image = NoImage
  /\ attempts = <<>>
  /\ gui = MainWindow

ResolveCall ==
  /\ pc = "resolve"
  /\ res' = resolve_case_insensitive_path(fs, arg.path)
  /\ pc' = "resolved"
  /\ UNCHANGED <<fs, arg, out, log, image, attempts, gui>>

\* the caller resolves the path it got back
ResolveAgain ==
  /\ pc = "resolved"
  /\ arg.first = None
  /\ res.ok
  /\ arg' = [path |-> res.path, first |-> arg.path]
  /\ pc' = "resolve"
  /\ UNCHANGED <<fs, res, out, log, image, attempts, gui>>

NextResolve == ResolveCall \/ ResolveAgain

SpecResolve == InitResolve /\ [][NextResolve]_vars

\* on-disk prefix of a path
Prefix(p, n) == SubSeq(p, 1, n)

\* name is the first entry of directory dir that equals part up to case
IsFirstMatch(v, dir, name, part) ==
  /\ dir \in DOMAIN v.dirs
  /\ \E k \in 1..Len(v.dirs[dir]) :
       /\ v.dirs[dir][k] = name
       /\ Lower(name) = Lower(part)
       /\ \A j \in 1..(k - 1) : Lower(v.dirs[dir][j]) # Lower(part)

\* C7: two logical paths that differ only in letter case both fail or both
\* resolve to the same path, whose every component is the on-disk spelling
\* of the first case-insensitive match in its parent's listing; resolving
\* a resolved path returns it unchanged.
ResolverCaseInsensitiveIdempotent ==
  pc = "resolved" =>
    /\ \A q \in ResolvePaths :
         LowerPath(q) = LowerPath(arg.path) =>
           LET r == resolve_case_insensitive_path(fs, q)
           IN  /\ r.ok = res.ok
               /\ r.path = res.path
    /\ res.ok =>
         /\ Len(res.path) = Len(arg.path)
         /\ \A i \in 1..Len(res.path) :
              IsFirstMatch(fs, Prefix(res.path, i - 1), res.path[i], arg.path[i])
    /\ arg.first # None => res.ok /\ res.path = arg.path

\* the second resolution ran on a resolved path of two components or more
\* whose logical spelling was different, in a volume whose root holds two
\* names equal up to case
ResolverCaseWitness ==
  /\ pc = "resolved"
  /\ arg.first # None
  /\ arg.first # arg.path
  /\ Len(arg.path) >= 2
  /\ \E i, j \in 1..Len(fs.dirs[<<>>]) :
       i # j /\ Lower(fs.dirs[<<>>][i]) = Lower(fs.dirs[<<>>][j])

\* C8: a failed resolution raises the not-found error; when a component has
\* no match the error names the leftmost such component and its (resolved)
\* parent; otherwise the parent it names cannot be opened as a directory;
\* the root path resolves to itself with no directory opened.
ResolverNamesFirstMissing ==
  pc = "resolved" =>
    /\ arg.path = <<>> => res.ok /\ res.path = <<>> /\ res.lookups = <<>>
    /\ ~res.ok =>
         LET k == Len(res.parent) + 1
         IN  /\ res.err = "FileNotFoundError"
             /\ k <= Len(arg.path)
             /\ \A i \in 1..(k - 1) :
                  IsFirstMatch(fs, Prefix(res.parent, i - 1), res.parent[i], arg.path[i])
             /\ IF res.parent \in DOMAIN fs.dirs
                  THEN /\ res.part = arg.path[k]
                       /\ \A j \in 1..Len(fs.dirs[res.parent]) :
                            Lower(fs.dirs[res.parent][j]) # Lower(arg.path[k])
                  ELSE res.part = None

\* a three-component path whose second component is missing (and so its
\* third) failed, naming the second
ResolverMissingWitness ==
  /\ pc = "resolved"
  /\ ~res.ok
  /\ Len(arg.path) = 3
  /\ res.part = arg.path[2]
  /\ Len(res.parent) = 1

(***************************************************************************)
(* SpecCopy: one call of copy_file_or_dir on an empty local tree.          *)
(***************************************************************************)
\* most entries of the directory that is copied
MaxFiles == 3
\* most reads that return bytes, per file
MaxReads == 3

CopyNames == <<"FOO.pf", "BAR.pf", "BAZ.pf", "QUX.pf", "History">>

\* what a directory entry is
EntryKinds ==
  { "ok", "openFail", "readFail", "readFailLate", "short", "nosize", "orphan", "dir" }

EntryFile(kind) ==
  CASE kind = "ok" -> GoodFile(5)
    [] kind = "openFail" -> [GoodFile(5) EXCEPT !.openOK = FALSE]
    [] kind = "readFail" -> [GoodFile(5) EXCEPT !.failAt = 0]
    [] kind = "readFailLate" -> [GoodFile(CHUNK + 5) EXCEPT !.failAt = CHUNK + 1]
    [] kind = "short" -> [GoodFile(CHUNK + 5) EXCEPT !.avail = 3]
    [] kind = "nosize" -> [GoodFile(EOF_CHUNK + 1) EXCEPT !.size = 0]

CopyDirPath == <<"Windows", "Prefetch">>

\* /Windows/Prefetch holding the entries names[1..n] of the given kinds;
\* an entry of kind "dir" is a directory holding the good file Data
DirVolume(names, kinds, asFile) ==
  LET n == Len(kinds)
      at(i) == Append(CopyDirPath, names[i])
      subs == { i \in 1..n : kinds[i] = "dir" }
      plain == { i \in 1..n : kinds[i] \notin {"dir", "orphan"} }
  IN  [dirs |-> [p \in {<<>>, <<"Windows">>, CopyDirPath} \cup { at(i) : i \in subs } |->
                   IF p = <<>> THEN <<"Windows">>
                   ELSE IF p = <<"Windows">> THEN <<"Prefetch">>
                   ELSE IF p = CopyDirPath THEN [i \in 1..n |-> names[i]]
                   ELSE <<".", "..", "Data">>],
       files |-> [p \in { at(i) : i \in plain } \cup { Append(at(i), "Data") : i \in subs } |->
                    IF Len(p) = 3
                      THEN EntryFile(kinds[CHOOSE i \in plain : at(i) = p])
                      ELSE GoodFile(5)],
       dirAsFile |-> asFile]

\* the entry names: distinct, or with the second equal to the first up to case
CopyNameLists == { CopyNames, [CopyNames EXCEPT ![2] = "foo.pf"] }

DirVolumes ==
  UNION { { DirVolume(names, kinds, asFile) :
              names \in CopyNameLists, kinds \in [1..n -> EntryKinds], asFile \in BOOLEAN } :
          n \in 0..MaxFiles }

\* declared sizes, bytes yielded, bytes per read, failing offsets of the
\* single file /Windows/Prefetch/FOO.pf
FileSizes == {0, 1, 5, EOF_CHUNK + 1, CHUNK, CHUNK + 1, 2 * CHUNK + 3}
FileAvails == {0, 1, 4, 5, EOF_CHUNK, EOF_CHUNK + 1, CHUNK - 1, CHUNK, CHUNK + 1, 2 * CHUNK + 3}
FileBursts == {1, 2, EOF_CHUNK, CHUNK - 1, 3 * CHUNK}
FileFailAts == {-1, 0, 4, CHUNK}

FileRecords ==
  { f \in [openOK : {TRUE}, size : FileSizes, avail : FileAvails,
           burst : FileBursts, failAt : FileFailAts] :
      /\ f.avail <= f.burst * MaxReads
      /\ f.size = 0 => f.avail <= EOF_CHUNK * MaxReads }

FileVolume(f) ==
  [dirs |-> [p \in {<<>>, <<"Windows">>, CopyDirPath} |->
               IF p = <<>> THEN <<"Windows">>
               ELSE IF p = <<"Windows">> THEN <<"Prefetch">>
               ELSE <<"FOO.pf">>],
   files |-> [p \in {Append(CopyDirPath, "FOO.pf")} |-> f],
   dirAsFile |-> TRUE]

FileVolumes == { FileVolume(f) : f \in FileRecords }

\* source paths handed to the copier: the directory, one file, a missing
\* path, the root
CopySources ==
  { <<"windows", "prefetch">>, <<"Windows", "Prefetch", "FOO.pf">>,
    <<"Windows", "System32", "config">>, <<>> }

InitCopy ==
  /\ pc = "copy"
  /\ fs \in DirVolumes \cup FileVolumes
  /\ \E s \in CopySources : arg = [src |-> s, dst |-> <<"prefetch">>]
  /\ res = None
  /\ out = EmptyOut
  /\ log = <<>>
  /\ image = NoImage
  /\ attempts = <<>>
  /\ gui = MainWindow

CopyCall ==
  /\ pc = "copy"
  /\ LET c == copy_file_or_dir(fs, arg.src, arg.dst, out, log)
     IN  /\ res' = [ret |-> c.ret, exc |-> c.exc]
         /\ out' = c.out
         /\ log' = c.log
  /\ pc' = "copied"
  /\ UNCHANGED <<fs, arg, image, attempts, gui>>

NextCopy == CopyCall

SpecCopy == InitCopy /\ [][NextCopy]_vars

\* the image-side open or a read of the file at path fails
Unreadable(v, path) ==
  \/ ~CanOpenFile(v, path)
  \/ ReadSource(FileRecord(v, path), path).raised

\* the names of a listing are distinct up to case
CaseDistinct(listing) ==
  \A i, j \in 1..Len(listing) : Lower(listing[i]) = Lower(listing[j]) => i = j

\* the files directly in directory dir
FilesIn(v, dir) ==
  { i \in 1..Len(v.dirs[dir]) : Append(dir, v.dirs[dir][i]) \in DOMAIN v.files }

\* C1: copying a directory that directly holds N files, M < N of them
\* unreadable, writes each of the other N - M files to destination/name and
\* returns true, wherever the unreadable files stand in the listing.
CopyDirSkipsUnreadable ==
  (/\ pc = "copied"
   /\ arg.src = <<"windows", "prefetch">>
   /\ CopyDirPath \in DOMAIN fs.dirs
   /\ CaseDistinct(fs.dirs[CopyDirPath])
   /\ \E i \in FilesIn(fs, CopyDirPath) :
        ~Unreadable(fs, Append(CopyDirPath, fs.dirs[CopyDirPath][i])))
  => /\ res.ret = "True"
     /\ \A i \in FilesIn(fs, CopyDirPath) :
          LET name == fs.dirs[CopyDirPath][i]
          IN  ~Unreadable(fs, Append(CopyDirPath, name)) =>
                Append(arg.dst, name) \in DOMAIN out.files

\* C9: a file of declared size S > 0 whose source yields only K < S bytes
\* (no read raising) is copied as exactly its first K bytes, and the copy
\* returns true.
ShortSourceCopiesYielded ==
  LET path == Append(CopyDirPath, "FOO.pf")
  IN  (/\ pc = "copied"
       /\ arg.src = <<"Windows", "Prefetch", "FOO.pf">>
       /\ path \in DOMAIN fs.files
       /\ fs.files[path].openOK
       /\ fs.files[path].size > 0
       /\ fs.files[path].avail < fs.files[path].size
       /\ ~ReadSource(fs.files[path], path).raised)
      => /\ res.ret = "True"
         /\ arg.dst \in DOMAIN out.files
         /\ IsPrefixOf(out.files[arg.dst], path, fs.files[path].avail)

\* a file declared larger than one chunk, yielding fewer bytes than
\* declared, in reads shorter than what the source holds, has been copied
ShortSourceWitness ==
  LET path == Append(CopyDirPath, "FOO.pf")
  IN  /\ pc = "copied"
      /\ arg.src = <<"Windows", "Prefetch", "FOO.pf">>
      /\ path \in DOMAIN fs.files
      /\ fs.files[path].size > CHUNK
      /\ fs.files[path].avail < fs.files[path].size
      /\ fs.files[path].burst < fs.files[path].avail
      /\ fs.files[path].failAt = -1
      /\ res.ret = "True"
      /\ Len(out.files[arg.dst]) > 1

\* C10: copy_file_or_dir lets no exception out for an image-side failure:
\* a top-level path that does not resolve returns false after a [MISSING]
\* message, a source file that cannot be opened or read returns false after
\* a message.
CopyNeverRaises ==
  pc = "copied" =>
    /\ res.ret # "raise"
    /\ ~resolve_case_insensitive_path(fs, arg.src).ok =>
         /\ res.ret = "False"
         /\ log = <<[tag |-> "MISSING", src |-> arg.src, dst |-> <<>>]>>
    /\ (/\ resolve_case_insensitive_path(fs, arg.src).ok
        /\ ~CanOpenDir(fs, resolve_case_insensitive_path(fs, arg.src).path)
        /\ Unreadable(fs, resolve_case_insensitive_path(fs, arg.src).path))
       => res.ret = "False" /\ Len(log) = 1

(***************************************************************************)
(* SpecSelect: one call of open_ewf_image_and_find_fs.                     *)
(***************************************************************************)
\* most entries of the partition table
MaxParts == 2

\* a volume that only has a root directory
RootOnlyVolume(listing) ==
  [dirs |-> [p \in {<<>>} |-> listing], files |-> NoFunction, dirAsFile |-> TRUE]

\* what lies at a start sector: nothing, or a filesystem
SelectKinds == { "none", "plain", "unlistable", "windows", "users", "legacy" }

SelectVolume(kind) ==
  CASE kind = "plain" -> RootOnlyVolume(<<".", "..", "Data">>)
    [] kind = "unlistable" -> NoVolume
    [] kind = "windows" -> RootOnlyVolume(<<"$MFT", "", "WINDOWS">>)
    [] kind = "users" -> RootOnlyVolume(<<"Data", "users">>)
    [] kind = "legacy" -> RootOnlyVolume(<<"Documents and Settings">>)

SelectStarts == {0, 1, 63}
SectorSizes == {512, 4096}

\* the filesystems of an image: kinds[s] at start sector s
FsAt(kinds, sector_size) ==
  [o \in { s * sector_size : s \in { s \in SelectStarts : kinds[s] # "none" } } |->
     SelectVolume(kinds[CHOOSE s \in SelectStarts : s * sector_size = o])]

SelectParts(desc) ==
  UNION { [1..n -> [start : SelectStarts, len : {0, 2048}, desc : {desc}]] :
          n \in 0..MaxParts }

SelectImages ==
  { [segments |-> 1, openOK |-> TRUE, fsAt |-> FsAt(kinds, ss), table |-> TRUE,
     sector |-> ss, parts |-> parts] :
      kinds \in { k \in [SelectStarts -> SelectKinds] : k[0] \in {"none", "windows"} },
      ss \in SectorSizes,
      parts \in SelectParts("") \cup SelectParts("NTFS (0x07)") }
  \cup
  { [segments |-> n, openOK |-> ok, fsAt |-> FsAt(kinds, 512), table |-> FALSE,
     sector |-> 512, parts |-> <<>>] :
      n \in {0, 1, 2}, ok \in BOOLEAN,
      kinds \in { k \in [SelectStarts -> {"none", "windows", "plain"}] : k[1] = "none" } }

InitSelect ==
  /\ pc = "select"
  /\ image \in SelectImages
  /\ fs = NoVolume
  /\ arg = None
  /\ res = None
  /\ out = EmptyOut
  /\ log = <<>>
  /\ attempts = <<>>
  /\ gui = MainWindow

SelectCall ==
  /\ pc = "select"
  /\ LET r == open_ewf_image_and_find_fs(image)
     IN  /\ res' = [r EXCEPT !.vol = None]
         /\ fs' = IF r.ok THEN r.vol ELSE fs
         /\ pc' = IF r.ok THEN "selected" ELSE "raised"
  /\ UNCHANGED <<arg, out, log, image, attempts, gui>>

NextSelect == SelectCall

SpecSelect == InitSelect /\ [][NextSelect]_vars

\* the table entries whose filesystem opens, and those whose root holds
\* Windows, Users or Documents and Settings
Openable(img) ==
  { i \in 1..Len(img.parts) : img.parts[i].start * img.sector \in DOMAIN img.fsAt }

HasArtifactRoot(img, i) ==
  LET v == img.fsAt[img.parts[i].start * img.sector]
  IN  /\ <<>> \in DOMAIN v.dirs
      /\ \E k \in 1..Len(v.dirs[<<>>]) :
           Lower(v.dirs[<<>>][k]) \in {"windows", "users", "documents and settings"}

First(S) == CHOOSE i \in S : \A j \in S : i <= j

\* an image whose container opens
Opens(img) == img.segments > 0 /\ img.openOK

\* one partition (positive start and length) with a filesystem whose root
\* holds Windows; no filesystem at offset 0 nor at any other table entry
SinglePartitionWindows(img) ==
  /\ Opens(img)
  /\ img.table
  /\ 0 \notin DOMAIN img.fsAt
  /\ \E i \in 1..Len(img.parts) :
       /\ Openable(img) = {i}
       /\ img.parts[i].start > 0
       /\ img.parts[i].len > 0
       /\ \E k \in 1..Len(RootNames(img.fsAt[img.parts[i].start * img.sector])) :
            Lower(RootNames(img.fsAt[img.parts[i].start * img.sector])[k]) = "windows"

\* C4: for a well-formed single-partition image whose partition's root
\* holds Windows, the selector returns the partition's byte offset (start
\* sector times sector size), not offset 0.
SinglePartitionOffset ==
  (pc # "select" /\ SinglePartitionWindows(image)) =>
    /\ pc = "selected"
    /\ res.offset = image.parts[First(Openable(image))].start * image.sector
    /\ res.offset # 0
    /\ res.desc # "offset 0"

\* such an image, with 4096-byte sectors and a table entry before the
\* partition, has been through the selector
SinglePartitionWitness ==
  /\ pc = "selected"
  /\ SinglePartitionWindows(image)
  /\ image.sector = 4096
  /\ Len(image.parts) = 2
  /\ Openable(image) = {2}

SelectorOffsetZero ==
  (pc # "select" /\ Opens(image) /\ 0 \in DOMAIN image.fsAt) =>
    /\ pc = "selected"
    /\ res.offset = 0
    /\ res.desc = "offset 0"
    /\ fs = image.fsAt[0]
    /\ ~res.enumerated
    /\ res.opened = <<0>>

\* offset 0 was returned for an image that also has a table with a Windows
\* partition
SelectorOffsetZeroWitness ==
  /\ pc = "selected"
  /\ res.offset = 0
  /\ image.table
  /\ \E i \in Openable(image) : image.parts[i].start > 0 /\ HasArtifactRoot(image, i)

(***************************************************************************)
(* Spec: one run of extract_artifacts, one action per section of the       *)
(* function.                                                               *)
(***************************************************************************)
\* most user accounts in the users container
MaxUsers == 2

\* the elements of a set of integers in increasing order
RECURSIVE Sorted(_)
Sorted(S) ==
  IF S = {} THEN <<>>
  ELSE LET m == CHOOSE i \in S : \A j \in S : i <= j
       IN  <<m>> \o Sorted(S \ {m})

FileEntry(path, f) == [p |-> path, dir |-> FALSE, f |-> f]
DirEntry(path) == [p |-> path, dir |-> TRUE, f |-> GoodFile(0)]

\* the volume holding the given entries (files, and directories that may
\* be empty) and the directories leading to them; a listing shows the
\* names in the order of the entries, after "." and ".." below the root
Tree(entries) ==
  LET idx == 1..Len(entries)
      dirs == UNION { { SubSeq(entries[i].p, 1, n) :
                          n \in 0..(Len(entries[i].p) - IF entries[i].dir THEN 0 ELSE 1) } :
                      i \in idx }
      below(d) == { i \in idx : /\ Len(entries[i].p) > Len(d)
                                /\ SubSeq(entries[i].p, 1, Len(d)) = d }
      child(d, i) == entries[i].p[Len(d) + 1]
      firsts(d) == { i \in below(d) :
                       \A j \in below(d) : j < i => child(d, j) # child(d, i) }
      names(d) == LET order == Sorted(firsts(d))
                  IN  [k \in 1..Len(order) |-> child(d, order[k])]
  IN  [dirs |-> [d \in dirs \cup {<<>>} |->
                   IF d = <<>> THEN names(d) ELSE <<".", "..">> \o names(d)],
       files |-> [q \in { entries[i].p : i \in { i \in idx : ~entries[i].dir } } |->
                    entries[CHOOSE i \in idx : entries[i].p = q].f],
       dirAsFile |-> TRUE]

\* a file that is readable, cannot be opened, or cannot be read
ModeFile(mode) ==
  CASE mode = "ok" -> GoodFile(5)
    [] mode = "openFail" -> [GoodFile(5) EXCEPT !.openOK = FALSE]
    [] mode = "readFail" -> [GoodFile(5) EXCEPT !.failAt = 0]

\* the image of the end-to-end case: three files
EndToEndVolume ==
  Tree(<< FileEntry(ConfigPath("SYSTEM"), GoodFile(5)),
          FileEntry(<<"Users", "alice", "NTUSER.DAT">>, GoodFile(7)),
          FileEntry(<<"Windows", "Prefetch", "FOO.pf">>, GoodFile(3)) >>)

SystemModes == {"absent", "ok", "openFail", "readFail"}

SystemEntries(mode) ==
  IF mode = "absent" THEN << DirEntry(<<"Windows", "System32">>) >>
  ELSE << FileEntry(ConfigPath("SYSTEM"), ModeFile(mode)),
          FileEntry(ConfigPath("SYSTEM.LOG1"), GoodFile(5)),
          FileEntry(ConfigPath("SOFTWARE"), GoodFile(5)) >>

PrefetchModes == {"absent", "ok", "readFail", "root"}

PrefetchEntries(mode) ==
  CASE mode = "absent" -> <<>>
    [] mode = "root" -> << FileEntry(<<"PREFETCH", "FOO.pf">>, GoodFile(3)) >>
    [] OTHER -> << FileEntry(<<"Windows", "Prefetch", "FOO.pf">>, ModeFile(mode)),
                   FileEntry(<<"Windows", "Prefetch", "BAR.pf">>, GoodFile(3)) >>

MetaModes == {"none", "mft", "journal", "renamed"}

MetaEntries(mode) ==
  CASE mode = "none" -> <<>>
    [] mode = "mft" -> << FileEntry(<<"$MFT">>, GoodFile(5)),
                          FileEntry(<<"$LogFile">>, ModeFile("readFail")) >>
    [] mode = "journal" -> << FileEntry(<<"$MFT">>, GoodFile(5)),
                              FileEntry(<<"$Extend", "$UsnJrnl", "$J">>, GoodFile(5)) >>
    [] mode = "renamed" -> << FileEntry(<<"$Extend", "$UsnJrnl", "Data">>, GoodFile(5)),
                              FileEntry(<<"$Extend", "UsnJrnl", "$J">>, GoodFile(5)) >>

UserNames == <<"alice", "bob", "Alice">>

\* what an account holds: its hive, a Chrome profile, and which of the two
\* cannot be read
Profiles == {"plain", "chrome", "badHive", "badChrome"}

ProfileEntries(container, uname, profile) ==
  LET home == <<container, uname>>
      history == home \o <<"AppData", "Local", "Google", "Chrome", "User Data", "History">>
  IN  << FileEntry(Append(home, "NTUSER.DAT"),
                   ModeFile(IF profile = "badHive" THEN "readFail" ELSE "ok")) >>
      \o (IF profile = "plain" THEN <<>>
          ELSE << FileEntry(history,
                            ModeFile(IF profile = "badChrome" THEN "readFail" ELSE "ok")) >>)

RECURSIVE AccountEntries(_, _, _)
AccountEntries(container, profiles, i) ==
  IF i > Len(profiles) THEN <<>>
  ELSE ProfileEntries(container, UserNames[i], profiles[i])
         \o AccountEntries(container, profiles, i + 1)

\* the users container: Public and desktop.ini, then the accounts
UsersEntries(container, profiles) ==
  << FileEntry(<<container, "Public", "NTUSER.DAT">>, GoodFile(5)),
     FileEntry(<<container, "desktop.ini">>, GoodFile(1)) >>
  \o AccountEntries(container, profiles, 1)

ExtractVolumes ==
  {EndToEndVolume}
  \cup
  { Tree(SystemEntries(sys) \o PrefetchEntries(pf) \o MetaEntries(meta)) :
      sys \in SystemModes, pf \in PrefetchModes, meta \in MetaModes }
  \cup
  UNION { { Tree(SystemEntries("absent") \o UsersEntries(container, profiles)) :
              container \in {"Users", "Documents and Settings"},
              profiles \in [1..n -> Profiles] } :
          n \in 0..MaxUsers }

\* an image with one partition holding the volume
PartitionImage(v) ==
  [segments |-> 1, openOK |-> TRUE, fsAt |-> [o \in {63 * 512} |-> v], table |-> TRUE,
   sector |-> 512, parts |-> << [start |-> 63, len |-> 2048, desc |-> "NTFS (0x07)"] >>]

\* images the run cannot open or finds no volume in
UnusableImages ==
  { [segments |-> n, openOK |-> ok, fsAt |-> NoFunction, table |-> t, sector |-> 512,
     parts |-> IF t THEN << [start |-> 63, len |-> 2048, desc |-> ""] >> ELSE <<>>] :
      n \in {0, 1}, ok \in BOOLEAN, t \in BOOLEAN }

ExtractImages ==
  { PartitionImage(v) : v \in ExtractVolumes }
  \cup { [PartitionImage(EndToEndVolume) EXCEPT !.fsAt = [o \in {0} |-> EndToEndVolume]] }
  \cup UnusableImages

\* arg holds the output tree an earlier run left, none at first
Init ==
  /\ pc = "start"
  /\ image \in ExtractImages
  /\ fs = NoVolume
  /\ arg = <<>>
  /\ res = [ret |-> None, exc |-> None]
  /\ out = EmptyOut
  /\ log = <<>>
  /\ attempts = <<>>
  /\ gui = MainWindow

RunState == [out |-> out, log |-> log, attempts |-> attempts]

\* the section's effect on the run state, and the next section
Step(st, next) ==
  /\ out' = st.out
  /\ log' = st.log
  /\ attempts' = st.attempts
  /\ pc' = next
  /\ UNCHANGED <<fs, arg, res, image, gui>>

\* lines 271-293: the exception of the selector leaves extract_artifacts
Open ==
  /\ pc = "start"
  /\ LET r == open_ewf_image_and_find_fs(image)
         o1 == _ensure_dir(out, <<"logs">>)
     IN  IF r.ok
           THEN /\ fs' = r.vol
                /\ out' = [o1 EXCEPT !.dirs = @ \cup OutputDirs]
                /\ log' = Logged(Logged(log, "Opened image", <<>>, <<>>),
                                 "Filesystem opened", <<>>, <<>>)
                /\ res' = res
                /\ pc' = "hives"
           ELSE /\ fs' = fs
                /\ out' = o1
                /\ log' = Logged(log, "Opened image", <<>>, <<>>)
                /\ res' = [ret |-> "raise", exc |-> r.exc]
                /\ pc' = "raised"
  /\ UNCHANGED <<arg, image, attempts, gui>>

ExtractSystemHives ==
  /\ pc = "hives"
  /\ \E st \in {SystemHives(fs, RunState, 1)} : Step(st, "fsmeta")

ExtractFilesystemArtifacts ==
  /\ pc = "fsmeta"
  /\ \E st \in {FilesystemArtifacts(fs, RunState)} : Step(st, "prefetch")

ExtractPrefetch ==
  /\ pc = "prefetch"
  /\ \E st \in {Prefetch(fs, RunState)} : Step(st, "browsers")

ExtractBrowsers ==
  /\ pc = "browsers"
  /\ \E st \in {Browsers(fs, RunState)} : Step(st, "peruser")

ExtractPerUserHives ==
  /\ pc = "peruser"
  /\ \E st \in {PerUserHives(fs, RunState)} : Step(st, "finish")

\* lines 483-484
Finish ==
  /\ pc = "finish"
  /\ log' = Logged(log, "Extraction finished.", <<>>, <<>>)
  /\ res' = [ret |-> "True", exc |-> None]
  /\ pc' = "done"
  /\ UNCHANGED <<fs, arg, out, image, attempts, gui>>

Next ==
  \/ Open
  \/ ExtractSystemHives
  \/ ExtractFilesystemArtifacts
  \/ ExtractPrefetch
  \/ ExtractBrowsers
  \/ ExtractPerUserHives
  \/ Finish

Spec == Init /\ [][Next]_vars

\* the non-skipped entries of the users container
Accounts(v) ==
  IF UsersPath(v) = <<>> \/ UsersPath(v) \notin DOMAIN v.dirs THEN {}
  ELSE { v.dirs[UsersPath(v)][i] : i \in { i \in 1..Len(v.dirs[UsersPath(v)]) :
                                            ~SkippedUser(v.dirs[UsersPath(v)][i]) } }

\* the targets every run is to attempt whatever happened before: the hives
\* and their logs, $MFT, $LogFile, the first journal path, the first
\* prefetch path and, per account, the first profile path of each browser
\* and the canonically spelled hives
CatalogTargets(v) ==
  { ConfigPath(system_targets[i] \o suf) :
      i \in 1..Len(system_targets), suf \in {"", ".LOG1", ".LOG2"} }
  \cup { <<"$MFT">>, <<"$LogFile">>, usn_candidates[1], <<"Windows", "Prefetch">> }
  \cup UNION { { BrowserTargets(UsersPath(v), u)[1].src,
                 BrowserTargets(UsersPath(v), u)[3].src,
                 UsersPath(v) \o <<u, "NTUSER.DAT">>,
                 UsersPath(v) \o <<u, "NTUSER.DAT.LOG1">>,
                 UsersPath(v) \o <<u, "NTUSER.DAT.LOG2">>,
                 Append(UsrClassBases(UsersPath(v), u)[1], "UsrClass.dat") } :
               u \in Accounts(v) }

Attempted == { attempts[i].src : i \in 1..Len(attempts) }

\* C2: no failure while copying one artifact keeps a later artifact from
\* being attempted: a finished run has attempted every catalog target.
EveryTargetAttempted ==
  pc = "done" => CatalogTargets(fs) \subseteq Attempted

\* the files of the local tree
OutputFiles == DOMAIN out.files

\* the local file holds all the bytes of the image file
SameBytes(local, src) ==
  /\ local \in DOMAIN out.files
  /\ IsPrefixOf(out.files[local], src, fs.files[src].avail)

\* C3: for the single-partition image holding exactly SYSTEM, alice's
\* NTUSER.DAT and FOO.pf, a run on an empty output root leaves exactly the
\* files registry/System/SYSTEM, registry/PerUser/alice/NTUSER.DAT and
\* prefetch/FOO.pf, each with the bytes of its source.
EndToEndExactFiles ==
  (pc = "done" /\ image = PartitionImage(EndToEndVolume)) =>
    /\ OutputFiles = { <<"registry", "System", "SYSTEM">>,
                       <<"registry", "PerUser", "alice", "NTUSER.DAT">>,
                       <<"prefetch", "FOO.pf">> }
    /\ SameBytes(<<"registry", "System", "SYSTEM">>, ConfigPath("SYSTEM"))
    /\ SameBytes(<<"registry", "PerUser", "alice", "NTUSER.DAT">>,
                 <<"Users", "alice", "NTUSER.DAT">>)
    /\ SameBytes(<<"prefetch", "FOO.pf">>, <<"Windows", "Prefetch", "FOO.pf">>)

(***************************************************************************)
(* SpecTwice: extract_artifacts called a second time on the same image and *)
(* the same output root.  arg keeps the local tree the first call left.    *)
(***************************************************************************)
\* the caller starts the second call once the first has returned or raised
Rerun ==
  /\ pc \in {"done", "raised"}
  /\ arg = <<>>
  /\ arg' = <<out>>
  /\ pc' = "start"
  /\ fs' = NoVolume
  /\ log' = <<>>
  /\ attempts' = <<>>
  /\ UNCHANGED <<res, out, image, gui>>

NextTwice == Next \/ Rerun

SpecTwice == Init /\ [][NextTwice]_vars

\* C11: running extract_artifacts a second time on the same image and the
\* same output root leaves the output tree as the first run left it: the
\* same directories, the same files, and in each file the same bytes.
RerunIdempotent ==
  (pc \in {"done", "raised"} /\ arg # <<>>) =>
    /\ out.dirs = arg[1].dirs
    /\ DOMAIN out.files = DOMAIN arg[1].files
    /\ \A q \in DOMAIN out.files : out.files[q] = arg[1].files[q]

\* a second run that saved again, over the files of the first run, files
\* holding bytes, one of them twice within the run
RerunWitness ==
  /\ pc = "done"
  /\ arg # <<>>
  /\ DOMAIN arg[1].files # {}
  /\ \E q \in DOMAIN out.files : ContentLen(out.files[q]) > 0
  /\ \E i, j \in 1..Len(log) :
       /\ i < j
       /\ log[i].tag = "SAVED" /\ log[j].tag = "SAVED"
       /\ log[i].dst = log[j].dst
       /\ log[i].dst \in DOMAIN arg[1].files

(***************************************************************************)
(* SpecFair: one run that is not stopped from outside: the function runs   *)
(* on until it returns or raises.                                          *)
(***************************************************************************)
SpecFair == Spec /\ WF_vars(Next)

\* the container opens and a filesystem opens at offset 0 or at a table
\* entry with a positive start sector
HasVolume(img) ==
  /\ Opens(img)
  /\ \/ 0 \in DOMAIN img.fsAt
     \/ img.table /\ \E i \in Openable(img) : img.parts[i].start > 0

LoggedMiss(tag) ==
  \E i \in 1..Len(log) : log[i].tag = tag /\ log[i].src = <<>>

ExtractOutcome ==
  /\ pc = "raised" =>
       /\ ~HasVolume(image)
       /\ res.ret = "raise"
       /\ attempts = <<>>
       /\ DOMAIN out.files = {}
  /\ pc \notin {"start", "raised"} => HasVolume(image)
  /\ pc = "done" =>
       /\ res.ret = "True"
       /\ UsersPath(fs) = <<>> => LoggedMiss("BROWSERS") /\ LoggedMiss("REG-USER")

\* C12: extract_artifacts returns success exactly when the image opens and
\* a volume is selected: with a volume the run always reaches its end and
\* returns True, logging a miss for the browser artifacts and for the
\* per-user hives when there is no users container; without one it raises
\* and no artifact copy is attempted.
ExtractSucceedsIffVolume ==
  /\ []ExtractOutcome
  /\ HasVolume(image) ~> (pc = "done" /\ res.ret = "True")
  /\ ~HasVolume(image) ~> (pc = "raised" /\ attempts = <<>>)

\* a run that returned True on a volume without a users container, after a
\* hive could not be read and other artifacts were missing
ExtractSucceedsWitness ==
  /\ pc = "done"
  /\ res.ret = "True"
  /\ UsersPath(fs) = <<>>
  /\ \E i \in 1..Len(log) : log[i].tag = "REG-SYS"
  /\ \E i \in 1..Len(log) : log[i].tag = "MISSING"
  /\ \E i \in 1..Len(log) : log[i].tag = "SAVED"

\* the ordered candidate lists of the volume's artifacts: the journal
\* paths, the prefetch paths and, per account and browser, the profile
\* directory followed by its parent
CandidateLists(v) ==
  { usn_candidates, << <<"Windows", "Prefetch">>, <<"windows", "Prefetch">> >> }
  \cup UNION { { << BrowserTargets(UsersPath(v), u)[1].src,
                    BrowserTargets(UsersPath(v), u)[2].src >>,
                 << BrowserTargets(UsersPath(v), u)[3].src,
                    BrowserTargets(UsersPath(v), u)[4].src >> } :
               u \in Accounts(v) }

\* C13: the candidates of one artifact are attempted in list order, and a
\* candidate is attempted only after every earlier candidate of the list
\* was attempted and did not return True.
CandidatesStopAfterSuccess ==
  \A L \in CandidateLists(fs) :
    \A k, l \in 1..Len(L) :
      k < l =>
        \A j \in 1..Len(attempts) :
          attempts[j].src = L[l] =>
            /\ \E i \in 1..(j - 1) : attempts[i].src = L[k]
            /\ \A i \in 1..(j - 1) : attempts[i].src = L[k] => attempts[i].ret # "True"

\* the listing of the users container, empty when there is none
UsersListing(v) ==
  IF UsersPath(v) = <<>> \/ UsersPath(v) \notin DOMAIN v.dirs THEN <<>>
  ELSE v.dirs[UsersPath(v)]

SharedNames == {".", "..", "Public", "All Users", "Default", "Default User"}

\* a copy was attempted from below the entry name of the users container
AttemptedBelow(v, name) ==
  \E i \in 1..Len(attempts) :
    /\ Len(attempts[i].src) > Len(UsersPath(v))
    /\ Prefix(attempts[i].src, Len(UsersPath(v)) + 1) = Append(UsersPath(v), name)

\* a per-user output directory of that name exists
HasUserOutput(name) ==
  \/ Append(registry_peruser, name) \in out.dirs
  \/ Append(chrome_root, name) \in out.dirs
  \/ Append(edge_root, name) \in out.dirs

\* C14: a finished run made no copy attempt and no per-user directory for
\* the entries ".", "..", Public, All Users, Default and Default User of
\* the users container, and processed every other entry in both per-user
\* categories: its browser profiles and its hives were attempted.
PerUserSkipsSharedOnly ==
  pc = "done" =>
    \A k \in 1..Len(UsersListing(fs)) :
      LET name == UsersListing(fs)[k]
      IN  IF name \in SharedNames
            THEN ~AttemptedBelow(fs, name) /\ ~HasUserOutput(name)
            ELSE /\ BrowserTargets(UsersPath(fs), name)[1].src \in Attempted
                 /\ BrowserTargets(UsersPath(fs), name)[3].src \in Attempted
                 /\ UsersPath(fs) \o <<name, "NTUSER.DAT">> \in Attempted
                 /\ Append(registry_peruser, name) \in out.dirs

\* table entry i has a positive start sector and a positive length
ValidPart(img, i) == img.parts[i].start > 0 /\ img.parts[i].len > 0

\* C15: when the selector goes through the partition table, an entry with
\* sector count zero or start sector zero is not opened as a filesystem
\* and is not the volume returned (unless a valid entry has the same
\* start sector).
SelectorSkipsEmptyPartitions ==
  (pc \in {"selected", "raised"} /\ res.enumerated) =>
    \A i \in 1..Len(image.parts) :
      LET off == image.parts[i].start * image.sector
      IN  (/\ ~ValidPart(image, i)
           /\ \A j \in 1..Len(image.parts) :
                ValidPart(image, j) => image.parts[j].start # image.parts[i].start)
          => /\ \A k \in 2..Len(res.opened) : res.opened[k] # off
             /\ pc = "selected" => res.offset # off

\* the root directory of the filesystem at table entry i can be listed
RootListable(img, i) ==
  <<>> \in DOMAIN img.fsAt[img.parts[i].start * img.sector].dirs

\* C16: a table entry whose filesystem does not open, or whose root
\* directory cannot be listed, does not stop the enumeration and is never
\* the volume returned: the entries after it are still examined, and the
\* volume returned lies at an entry whose filesystem opens and whose root
\* lists.
SelectorExcludesUnreadablePartitions ==
  (pc \in {"selected", "raised"} /\ res.enumerated) =>
    /\ pc = "selected" =>
         \E i \in Openable(image) :
           /\ image.parts[i].start > 0
           /\ res.offset = image.parts[i].start * image.sector
           /\ RootListable(image, i)
    /\ pc = "raised" =>
         \A i \in 1..Len(image.parts) :
           image.parts[i].start > 0 =>
             \E k \in 2..Len(res.opened) :
               res.opened[k] = image.parts[i].start * image.sector

\* C17: copying a file with a declared size stops at the first short
\* read: a read that returned fewer bytes than it asked for is the last
\* read of the file (nothing is written after it and no later read
\* raises).
SizedCopyStopsAtShortRead ==
  LET path == Append(CopyDirPath, "FOO.pf")
  IN  (/\ pc = "copied"
       /\ arg.src = <<"Windows", "Prefetch", "FOO.pf">>
       /\ path \in DOMAIN fs.files
       /\ fs.files[path].size > 0
       /\ arg.dst \in DOMAIN out.files)
      => \A k \in 1..Len(out.files[arg.dst]) :
           LET chunk == out.files[arg.dst][k]
           IN  chunk.len < Min(CHUNK, fs.files[path].size - chunk.off)
                 => /\ k = Len(out.files[arg.dst])
                    /\ res.ret # "raise"

\* C18: an entry of the users container that is a plain file, not a
\* directory, causes no per-user output directory and no per-user copy
\* attempt.
PerUserOnlyForDirectories ==
  pc = "done" =>
    \A k \in 1..Len(UsersListing(fs)) :
      LET name == UsersListing(fs)[k]
      IN  (HasName(name) /\ name \notin {".", ".."}
             /\ Append(UsersPath(fs), name) \notin DOMAIN fs.dirs)
          => ~AttemptedBelow(fs, name) /\ ~HasUserOutput(name)

(***************************************************************************)
(* main.py: the window's handlers and the worker.  The main thread runs    *)
(* one handler at a time; a worker runs on a pool thread, and its finished *)
(* signal reaches _on_finished through the main thread's event queue.      *)
(***************************************************************************)
\* upper bound on the workers one behaviour starts
MaxRuns == 2

\* what the file dialog of select_image can give back: nothing (cancelled),
\* the image, or the path of a file that is gone when Start is pressed
FileNames == {"", "image.E01", "gone.E01"}

\* what the folder dialog of select_output_folder can give back
FolderNames == {"", "chosen"}

\* setEnabled(b) on each of the controls in names
SetEnabled(g, names, b) ==
  [g EXCEPT !.enabled = [c \in DOMAIN @ |-> IF c \in names THEN b ELSE @[c]]]

\* the five controls start_extraction disables and _on_finished enables
RunControls ==
  {"btn_start", "btn_select", "btn_choose_out", "spin_expected", "btn_open_out"}

\* the workers that were started and have not left Worker.run
ActiveWorkers ==
  { i \in 1..Len(gui.workers) : gui.workers[i].state \in {"queued", "running"} }

InitGui ==
  /\ pc = "start"
  /\ image \in ExtractImages
  /\ fs = NoVolume
  /\ arg = <<>>
  /\ res = [ret |-> None, exc |-> None]
  /\ out = EmptyOut
  /\ log = <<>>
  /\ attempts = <<>>
  /\ gui = MainWindow

\* the Browse button; the dialog is modal, so nothing else is clicked meanwhile
select_image ==
  /\ gui.enabled.btn_select
  /\ \E fname \in FileNames :
       gui' = IF fname = ""
                THEN gui
                ELSE SetEnabled([gui EXCEPT !.image_edit = fname,
                                            !.out_edit = "default"],
                                {"btn_start"}, TRUE)
  /\ UNCHANGED <<pc, fs, arg, res, out, log, image, attempts>>

\* the Choose output button
select_output_folder ==
  /\ gui.enabled.btn_choose_out
  /\ \E fd \in FolderNames :
       gui' = IF fd = "" THEN gui ELSE [gui EXCEPT !.out_edit = fd]
  /\ UNCHANGED <<pc, fs, arg, res, out, log, image, attempts>>

\* start_extraction that leaves the Start button enabled
start_extraction_keeps_start ==
  /\ gui.enabled.btn_start
  /\ Len(gui.workers) < MaxRuns
  /\ gui' = IF gui.image_edit = "" \/ gui.out_edit = "" \/ gui.image_edit = "gone.E01"
              THEN gui
              ELSE [SetEnabled(gui, RunControls \ {"btn_start"}, FALSE)
                      EXCEPT !.status_badge = "Running",
                             !.workers = Append(@, [state |-> "queued", emits |-> <<>>])]
  /\ UNCHANGED <<pc, fs, arg, res, out, log, image, attempts>>

\* the Start button: the three early returns, else the controls are disabled
\* and a new Worker is handed to the thread pool
start_extraction ==
  /\ gui.enabled.btn_start
  /\ Len(gui.workers) < MaxRuns
  /\ gui' = IF gui.image_edit = "" \/ gui.out_edit = "" \/ gui.image_edit = "gone.E01"
              THEN gui
              ELSE [SetEnabled(gui, RunControls, FALSE)
                      EXCEPT !.status_badge = "Running",
                             !.workers = Append(@, [state |-> "queued", emits |-> <<>>])]
  /\ UNCHANGED <<pc, fs, arg, res, out, log, image, attempts>>

\* a pool thread takes the worker and enters Worker.run
WorkerBegin ==
  /\ \E i \in 1..Len(gui.workers) :
       /\ gui.workers[i].state = "queued"
       /\ gui' = [gui EXCEPT !.workers[i].state = "running"]
  /\ UNCHANGED <<pc, fs, arg, res, out, log, image, attempts>>

\* whether extract_artifacts returns True on the image (it raises otherwise)
ExtractReturns(img) == open_ewf_image_and_find_fs(img).ok

\* Worker.run leaves: extract_artifacts returned and finished(bool(ok)) is
\* emitted, or it raised and the handler emits finished(False)
WorkerEnd ==
  /\ \E i \in 1..Len(gui.workers) :
       /\ gui.workers[i].state = "running"
       /\ \E ok \in {ExtractReturns(image)} :
            gui' = [gui EXCEPT !.workers[i].state = "done",
                               !.workers[i].emits = Append(@, ok),
                               !.queue = Append(@, [worker |-> i, success |-> ok])]
  /\ UNCHANGED <<pc, fs, arg, res, out, log, image, attempts>>

\* the main thread delivers the oldest finished signal
on_finished ==
  /\ gui.queue # <<>>
  /\ gui' = [SetEnabled(gui, RunControls, TRUE)
               EXCEPT !.queue = Tail(@),
                      !.status_badge = IF Head(gui.queue).success THEN "Idle" ELSE "Error"]
  /\ UNCHANGED <<pc, fs, arg, res, out, log, image, attempts>>

NextGui ==
  \/ select_image
  \/ select_output_folder
  \/ start_extraction
  \/ WorkerBegin
  \/ WorkerEnd
  \/ on_finished

SpecGui == InitGui /\ [][NextGui]_vars

\* C19: at most one worker is in the pool at a time; a worker that left run
\* emitted finished exactly once, with True exactly when extract_artifacts
\* returned and False when it raised, and a worker still in run emitted
\* nothing; from start_extraction until _on_finished has handled the signal
\* the Start button is disabled; after that the start, browse, output and
\* expected-count controls are enabled.
OneWorkerFinishedOnce ==
  /\ Cardinality(ActiveWorkers) <= 1
  /\ \A i \in 1..Len(gui.workers) :
       IF gui.workers[i].state = "done"
         THEN gui.workers[i].emits = <<ExtractReturns(image)>>
         ELSE gui.workers[i].emits = <<>>
  /\ (ActiveWorkers # {} \/ gui.queue # <<>>) => ~gui.enabled.btn_start
  /\ (gui.workers # <<>> /\ ActiveWorkers = {} /\ gui.queue = <<>>)
       => \A c \in {"btn_start", "btn_select", "btn_choose_out", "spin_expected"} :
            gui.enabled[c]

\* a second worker ran after the first one's _on_finished, extract_artifacts
\* raised in it, and its finished(False) has been handled
OneWorkerWitness ==
  /\ Len(gui.workers) = 2
  /\ ActiveWorkers = {}
  /\ gui.queue = <<>>
  /\ gui.workers[2].emits = <<FALSE>>
  /\ gui.status_badge = "Error"
  /\ gui.enabled.btn_start

====
